---- MODULE Spec2Model ----
(***************************************************************************)
(* Model of cplex/cpp/zoobuskids.cpp: main() builds the "zoo buses" integer*)
(* program with Concert, hands it to IloCplex, prints the solved values and*)
(* releases the environment.  Each statement of main is one action; the    *)
(* solver is the environment: solve() either fails or leaves an optimal    *)
(* assignment of the model it extracted, getValue() throws when there is   *)
(* no solution, and any Concert/CPLEX call may raise an IloException.      *)
(***************************************************************************)
EXTENDS Integers, Sequences, FiniteSets, TLC

VARIABLES
    pc,          \* position in main: "L<line>" of the next statement
    env,         \* IloEnv: "none" | "live" | "ended"
    kidsInput,   \* the literal assigned to nbKids at line 19
    nbKids,      \* local int nbKids (-1 before its declaration)
    costBus40,   \* local double costBus40 (-1 before its declaration)
    costBus30,   \* local double costBus30 (-1 before its declaration)
    dvars,       \* decision variables declared so far: name -> [lb, ub]
    cost,        \* IloExpr cost (NoExpr before line 31)
    temps,       \* temporaries of the statement being executed: the two
                 \* products a and b, their sum s, the objective or
                 \* constraint object c about to be added (<<>>: none)
    model,       \* IloModel contents: objectives and constraints added
    extracted,   \* what IloCplex extracted from the model (NoExtract before)
    solveCalls,  \* number of calls of cplex.solve()
    solved,      \* cplex holds a solution
    sol,         \* the solution: variable name -> value
    tmp,         \* <<v>>: value returned by the getValue call of the current
                 \* output statement and not yet inserted; <<>>: none
    out,         \* tokens inserted into cout, in order
    flushed,     \* how many tokens of out have reached standard output
    err,         \* tokens inserted into cerr, in order
    thrown,      \* number of IloExceptions raised
    caught,      \* number of times the catch handler was entered
    excSite,     \* where the exception was raised ("" if none)
    exitStatus   \* "running" | "0" | "abort"

vars == <<pc, env, kidsInput, nbKids, costBus40, costBus30, dvars, cost, temps, model,
          extracted, solveCalls, solved, sol, tmp, out, flushed, err, thrown,
          caught, excSite, exitStatus>>

\* Finite stand-in for the IloInfinity upper bound of the two variables.
MaxBus == 12

VarNames == {"nbBus40", "nbBus30"}

\* Values of nbKids tried for the boundary instance.
KidsValues == {0, 40, 300}

NoExpr == [coef |-> [v \in VarNames |-> 0], defined |-> FALSE]
NoTemps == [a |-> NoExpr, b |-> NoExpr, s |-> NoExpr, c |-> <<>>]
NoModel == [built |-> FALSE, objs |-> <<>>, cts |-> <<>>]
NoExtract == [built |-> FALSE, objs |-> <<>>, cts |-> <<>>, dvars |-> {}]
NoSol == [v \in VarNames |-> 0]

----------------------------------------------------------------------------
\* Concert expressions: linear combinations over the decision variables.

\* c * x
Term(c, x) == [coef |-> [v \in VarNames |-> IF v = x THEN c ELSE 0], defined |-> TRUE]

\* e + f
Plus(e, f) == [coef |-> [v \in VarNames |-> e.coef[v] + f.coef[v]], defined |-> TRUE]

\* value of e under assignment s
Eval(e, s) == e.coef["nbBus40"] * s["nbBus40"] + e.coef["nbBus30"] * s["nbBus30"]

----------------------------------------------------------------------------
\* The solver, as far as main relies on it: an assignment of the extracted
\* model's variables within their bounds that satisfies every constraint and
\* is best for the objective.

Sat(ct, s) ==
    CASE ct.op = ">=" -> Eval(ct.expr, s) >= ct.rhs
      [] ct.op = "<=" -> Eval(ct.expr, s) <= ct.rhs
      [] OTHER        -> Eval(ct.expr, s) = ct.rhs

Assignments(m) ==
    {s \in [VarNames -> 0..MaxBus] : \A d \in m.dvars : s[d.name] >= d.lb}

Feasible(m) ==
    {s \in Assignments(m) : \A i \in 1..Len(m.cts) : Sat(m.cts[i], s)}

Better(sense, x, y) == IF sense = "min" THEN x <= y ELSE x >= y

\* Without an objective every feasible assignment is a solution.
Optimal(m) ==
    LET F == Feasible(m)
        obj == m.objs[1]
    IN  IF m.objs = <<>>
        THEN F
        ELSE {s \in F : \A t \in F :
                 Better(obj.sense, Eval(obj.expr, s), Eval(obj.expr, t))}

----------------------------------------------------------------------------
\* operator<< of an IloNum (double) on cout: default format, 6 significant
\* digits, scientific notation from 1e+06 on, trailing zeros dropped.

RECURSIVE Pow10(_)
Pow10(n) == IF n <= 0 THEN 1 ELSE 10 * Pow10(n - 1)

RECURSIVE Digits(_)
Digits(n) == IF n < 10 THEN <<n>> ELSE Append(Digits(n \div 10), n % 10)

RECURSIVE FromDigits(_)
FromDigits(ds) ==
    IF ds = <<>> THEN 0
    ELSE 10 * FromDigits(SubSeq(ds, 1, Len(ds) - 1)) + ds[Len(ds)]

RECURSIVE StripZeros(_)
StripZeros(ds) ==
    IF Len(ds) > 1 /\ ds[Len(ds)] = 0
    THEN StripZeros(SubSeq(ds, 1, Len(ds) - 1))
    ELSE ds

RoundHalfEven(n, d) ==
    LET q == n \div d
        r == n % d
    IN  IF 2 * r > d \/ (2 * r = d /\ q % 2 = 1) THEN q + 1 ELSE q

Str(s) == [kind |-> "str", text |-> s, neg |-> FALSE, digits |-> <<>>, exp |-> 0]

Endl == [kind |-> "endl", text |-> "", neg |-> FALSE, digits |-> <<>>, exp |-> 0]

FormatG(v) ==
    LET a == IF v < 0 THEN -v ELSE v
        e == Len(Digits(a)) - 1
        m0 == RoundHalfEven(a, Pow10(e - 5))
        carry == m0 = 1000000
    IN  IF a < 1000000
        THEN [kind |-> "num", text |-> "", neg |-> v < 0, digits |-> Digits(a), exp |-> 0]
        ELSE [kind |-> "num", text |-> "", neg |-> v < 0,
              digits |-> StripZeros(Digits(IF carry THEN 100000 ELSE m0)),
              exp |-> IF carry THEN e + 1 ELSE e]

\* The number a printed token denotes.
Parse(tok) ==
    LET a == IF tok.exp = 0
             THEN FromDigits(tok.digits)
             ELSE FromDigits(tok.digits) * Pow10(tok.exp - (Len(tok.digits) - 1))
    IN  IF tok.neg THEN -a ELSE a

----------------------------------------------------------------------------
\* State after process start, before the first statement of main.

InitLocals ==
    /\ pc = "L14"
    /\ env = "none"
    /\ nbKids = -1
    /\ costBus40 = -1
    /\ costBus30 = -1
    /\ dvars = {}
    /\ cost = NoExpr
    /\ temps = NoTemps
    /\ model = NoModel
    /\ extracted = NoExtract
    /\ solveCalls = 0
    /\ solved = FALSE
    /\ sol = NoSol
    /\ tmp = <<>>
    /\ out = <<>>
    /\ flushed = 0
    /\ err = <<>>
    /\ thrown = 0
    /\ caught = 0
    /\ excSite = ""
    /\ exitStatus = "running"

Init == InitLocals /\ kidsInput = 300

\* The same program with the literal of line 19 replaced.
InitKids == InitLocals /\ kidsInput \in KidsValues

----------------------------------------------------------------------------
\* Groups of variables an action leaves alone.

locals == <<kidsInput, nbKids, costBus40, costBus30, dvars, cost>>
solver == <<extracted, solveCalls, solved, sol>>
io == <<tmp, out, flushed, err>>
exc == <<thrown, caught, excSite>>

----------------------------------------------------------------------------
\* main, statement by statement.

\* line 14: IloEnv env;
EnvCtor ==
    /\ pc = "L14"
    /\ env' = "live"
    /\ pc' = "L16"
    /\ UNCHANGED <<locals, temps, model, solver, io, exc, exitStatus>>

\* line 14: the constructor of IloEnv raises an IloException.  Line 14 is
\* outside the try block: no handler is entered, std::terminate ends the
\* process.
EnvCtorThrows ==
    /\ pc = "L14"
    /\ thrown' = thrown + 1
    /\ excSite' = "L14"
    /\ pc' = "aborted"
    /\ exitStatus' = "abort"
    /\ UNCHANGED <<env, locals, temps, model, solver, io, caught>>

\* line 16: IloModel model(env);
ModelCtor ==
    /\ pc = "L16"
    /\ model' = [built |-> TRUE, objs |-> <<>>, cts |-> <<>>]
    /\ pc' = "L19"
    /\ UNCHANGED <<env, locals, temps, solver, io, exc, exitStatus>>

\* line 19: int nbKids = 300;
DeclKids ==
    /\ pc = "L19"
    /\ nbKids' = kidsInput
    /\ pc' = "L22"
    /\ UNCHANGED <<env, kidsInput, costBus40, costBus30, dvars, cost, temps,
                   model, solver, io, exc, exitStatus>>

\* line 22: double costBus40 = 500;
DeclCost40 ==
    /\ pc = "L22"
    /\ costBus40' = 500
    /\ pc' = "L23"
    /\ UNCHANGED <<env, kidsInput, nbKids, costBus30, dvars, cost, temps,
                   model, solver, io, exc, exitStatus>>

\* line 23: double costBus30 = 400;
DeclCost30 ==
    /\ pc = "L23"
    /\ costBus30' = 400
    /\ pc' = "L27"
    /\ UNCHANGED <<env, kidsInput, nbKids, costBus40, dvars, cost, temps,
                   model, solver, io, exc, exitStatus>>

\* line 27: IloIntVar nbBus40(env, 0, IloInfinity, "nbBus40");
DeclVar40 ==
    /\ pc = "L27"
    /\ dvars' = dvars \cup {[name |-> "nbBus40", lb |-> 0, ub |-> "IloInfinity"]}
    /\ pc' = "L28"
    /\ UNCHANGED <<env, kidsInput, nbKids, costBus40, costBus30, cost, temps,
                   model, solver, io, exc, exitStatus>>

\* line 28: IloIntVar nbBus30(env, 0, IloInfinity, "nbBus30");
DeclVar30 ==
    /\ pc = "L28"
    /\ dvars' = dvars \cup {[name |-> "nbBus30", lb |-> 0, ub |-> "IloInfinity"]}
    /\ pc' = "L31"
    /\ UNCHANGED <<env, kidsInput, nbKids, costBus40, costBus30, cost, temps,
                   model, solver, io, exc, exitStatus>>

\* Mutant: the capacities of line 37 attached to the wrong variables.
Coef_Swapped(l, side) ==
    CASE l = "L31" /\ side = "left"  -> costBus40
      [] l = "L31" /\ side = "right" -> costBus30
      [] l = "L37" /\ side = "left"  -> 30
      [] OTHER                       -> 40

\* Lines 31 and 37 each multiply the two variables by a coefficient and add
\* the products.  The coefficient of the left or right product of line l:
Coef(l, side) ==
    CASE l = "L31" /\ side = "left"  -> costBus40
      [] l = "L31" /\ side = "right" -> costBus30
      [] l = "L37" /\ side = "left"  -> 40
      [] OTHER                       -> 30

\* lines 31, 37: costBus40 * nbBus40   /   40 * nbBus40
MulLeft ==
    /\ pc \in {"L31", "L37"}
    /\ ~temps.a.defined
    /\ temps' = [temps EXCEPT !.a = Term(Coef(pc, "left"), "nbBus40")]
    /\ UNCHANGED <<pc, env, locals, model, solver, io, exc, exitStatus>>

\* lines 31, 37: costBus30 * nbBus30   /   30 * nbBus30
\* (the two operands of + are evaluated in either order)
MulRight ==
    /\ pc \in {"L31", "L37"}
    /\ ~temps.b.defined
    /\ temps' = [temps EXCEPT !.b = Term(Coef(pc, "right"), "nbBus30")]
    /\ UNCHANGED <<pc, env, locals, model, solver, io, exc, exitStatus>>

\* Mutant: the second term of the cost is dropped.
BuildCost_LeftOnly ==
    /\ pc = "L31"
    /\ temps.a.defined /\ temps.b.defined
    /\ cost' = temps.a
    /\ temps' = NoTemps
    /\ pc' = "L32"
    /\ UNCHANGED <<env, kidsInput, nbKids, costBus40, costBus30, dvars, model,
                   solver, io, exc, exitStatus>>

\* line 31: IloExpr cost = <left> + <right>;
BuildCost ==
    /\ pc = "L31"
    /\ temps.a.defined /\ temps.b.defined
    /\ cost' = Plus(temps.a, temps.b)
    /\ temps' = NoTemps
    /\ pc' = "L32"
    /\ UNCHANGED <<env, kidsInput, nbKids, costBus40, costBus30, dvars, model,
                   solver, io, exc, exitStatus>>

\* Mutant: IloMaximize instead of IloMinimize.
MakeObjective_Max ==
    /\ pc = "L32"
    /\ temps.c = <<>>
    /\ temps' = [temps EXCEPT !.c = <<[sense |-> "max", expr |-> cost]>>]
    /\ UNCHANGED <<pc, env, locals, model, solver, io, exc, exitStatus>>

\* line 32: IloMinimize(env, cost)
MakeObjective ==
    /\ pc = "L32"
    /\ temps.c = <<>>
    /\ temps' = [temps EXCEPT !.c = <<[sense |-> "min", expr |-> cost]>>]
    /\ UNCHANGED <<pc, env, locals, model, solver, io, exc, exitStatus>>

\* Mutant: the objective is added a second time.
AddObjective_Twice ==
    /\ pc = "L32"
    /\ temps.c # <<>>
    /\ model' = [model EXCEPT !.objs = Append(Append(@, temps.c[1]), temps.c[1])]
    /\ temps' = NoTemps
    /\ pc' = "L37"
    /\ UNCHANGED <<env, locals, solver, io, exc, exitStatus>>

\* line 32: model.add(<objective>);
AddObjective ==
    /\ pc = "L32"
    /\ temps.c # <<>>
    /\ model' = [model EXCEPT !.objs = Append(@, temps.c[1])]
    /\ temps' = NoTemps
    /\ pc' = "L37"
    /\ UNCHANGED <<env, locals, solver, io, exc, exitStatus>>

\* line 37: <left> + <right>
SumLhs ==
    /\ pc = "L37"
    /\ temps.a.defined /\ temps.b.defined /\ ~temps.s.defined
    /\ temps' = [temps EXCEPT !.s = Plus(temps.a, temps.b)]
    /\ UNCHANGED <<pc, env, locals, model, solver, io, exc, exitStatus>>

\* Mutant: > instead of >= (on integers: >= nbKids + 1).
MakeConstraint_Strict ==
    /\ pc = "L37"
    /\ temps.s.defined /\ temps.c = <<>>
    /\ temps' = [temps EXCEPT !.c =
                    <<[expr |-> temps.s, op |-> ">=", rhs |-> nbKids + 1]>>]
    /\ UNCHANGED <<pc, env, locals, model, solver, io, exc, exitStatus>>

\* line 37: <sum> >= nbKids
MakeConstraint ==
    /\ pc = "L37"
    /\ temps.s.defined /\ temps.c = <<>>
    /\ temps' = [temps EXCEPT !.c = <<[expr |-> temps.s, op |-> ">=", rhs |-> nbKids]>>]
    /\ UNCHANGED <<pc, env, locals, model, solver, io, exc, exitStatus>>

\* line 37: model.add(<constraint>);
AddConstraint ==
    /\ pc = "L37"
    /\ temps.s.defined /\ temps.c # <<>>
    /\ model' = [model EXCEPT !.cts = Append(@, temps.c[1])]
    /\ temps' = NoTemps
    /\ pc' = "L39"
    /\ UNCHANGED <<env, locals, solver, io, exc, exitStatus>>

\* line 39: IloCplex cplex(model);  the model and the variables it uses are
\* extracted.
CplexCtor ==
    /\ pc = "L39"
    /\ extracted' = [built |-> TRUE, objs |-> model.objs, cts |-> model.cts,
                     dvars |-> dvars]
    /\ pc' = "L40"
    /\ UNCHANGED <<env, locals, temps, model, solveCalls, solved, sol, io, exc,
                   exitStatus>>

\* line 40: cplex.solve(); returns true with an optimal solution.  The return
\* value is not looked at.
SolveOptimal ==
    /\ pc = "L40"
    /\ \E s \in Optimal(extracted) :
          /\ solved' = TRUE
          /\ sol' = s
    /\ solveCalls' = solveCalls + 1
    /\ pc' = "L42"
    /\ UNCHANGED <<env, locals, temps, model, extracted, io, exc, exitStatus>>

\* line 40: cplex.solve(); returns false, there is no solution.  The return
\* value is not looked at.
SolveFails ==
    /\ pc = "L40"
    /\ solved' = FALSE
    /\ sol' = NoSol
    /\ solveCalls' = solveCalls + 1
    /\ pc' = "L42"
    /\ UNCHANGED <<env, locals, temps, model, extracted, io, exc, exitStatus>>

----------------------------------------------------------------------------
\* lines 42-44: the three output statements.  Each is a chain of operator<<
\* on cout whose numeric operand is a getValue call.  The call is evaluated
\* before its own insertion; whether it is evaluated before or after the
\* insertion of the text to its left depends on the language version, so
\* both orders are steps of the model.

OutLines == {"L42", "L43", "L44"}

Layout(l) ==
    CASE l = "L42" -> [start |-> 0, prefix |-> "Use ",
                       suffix |-> <<" buses of type 40">>, next |-> "L43"]
      [] l = "L43" -> [start |-> 4, prefix |-> "Use ",
                       suffix |-> <<" buses of type 30">>, next |-> "L44"]
      [] OTHER     -> [start |-> 8, prefix |-> "Total cost: ",
                       suffix |-> <<>>, next |-> "L46"]

\* Mutant: the first two lines read each other's variable.
ReadValue_Swapped(l) ==
    CASE l = "L42" -> sol["nbBus30"]
      [] l = "L43" -> sol["nbBus40"]
      [] OTHER     -> Eval(cost, sol)

\* cplex.getValue(nbBus40), cplex.getValue(nbBus30), cplex.getValue(cost)
ReadValue(l) ==
    CASE l = "L42" -> sol["nbBus40"]
      [] l = "L43" -> sol["nbBus30"]
      [] OTHER     -> Eval(cost, sol)

\* An IloException leaves the try block: control enters the handler of
\* line 48.
Raise(site) ==
    /\ thrown' = thrown + 1
    /\ excSite' = site
    /\ caught' = caught + 1
    /\ pc' = "L49"

\* cout << "Use "   /   cout << "Total cost: "
PutPrefix ==
    /\ pc \in OutLines
    /\ Len(out) = Layout(pc).start
    /\ out' = Append(out, Str(Layout(pc).prefix))
    /\ UNCHANGED <<pc, env, locals, temps, model, solver, tmp, flushed, err, exc,
                   exitStatus>>

\* cplex.getValue(...) with a solution at hand
GetValue ==
    /\ pc \in OutLines
    /\ tmp = <<>>
    /\ Len(out) - Layout(pc).start \in {0, 1}
    /\ solved
    /\ tmp' = <<ReadValue(pc)>>
    /\ UNCHANGED <<pc, env, locals, temps, model, solver, out, flushed, err, exc,
                   exitStatus>>

\* cplex.getValue(...) without a solution: IloCplex throws
GetValueThrows ==
    /\ pc \in OutLines
    /\ tmp = <<>>
    /\ Len(out) - Layout(pc).start \in {0, 1}
    /\ ~solved
    /\ Raise(pc)
    /\ UNCHANGED <<env, locals, temps, model, solver, io, exitStatus>>

\* ... << value
PutValue ==
    /\ pc \in OutLines
    /\ Len(out) = Layout(pc).start + 1
    /\ tmp # <<>>
    /\ out' = Append(out, FormatG(tmp[1]))
    /\ tmp' = <<>>
    /\ UNCHANGED <<pc, env, locals, temps, model, solver, flushed, err, exc, exitStatus>>

\* ... << " buses of type 40"   /   ... << " buses of type 30"
PutSuffix ==
    /\ pc \in OutLines
    /\ Layout(pc).suffix # <<>>
    /\ Len(out) = Layout(pc).start + 2
    /\ out' = Append(out, Str(Layout(pc).suffix[1]))
    /\ UNCHANGED <<pc, env, locals, temps, model, solver, tmp, flushed, err, exc,
                   exitStatus>>

\* ... << endl;  ends the line and flushes cout
PutEndl ==
    /\ pc \in OutLines
    /\ Len(out) = Layout(pc).start + 2 + Len(Layout(pc).suffix)
    /\ out' = Append(out, Endl)
    /\ flushed' = Len(out')
    /\ pc' = Layout(pc).next
    /\ UNCHANGED <<env, locals, temps, model, solver, tmp, err, exc, exitStatus>>

\* line 46: env.end();
EnvEnd ==
    /\ pc = "L46"
    /\ env' = "ended"
    /\ pc' = "L52"
    /\ UNCHANGED <<locals, temps, model, solver, io, exc, exitStatus>>

\* line 52: return 0;
Return0 ==
    /\ pc = "L52"
    /\ pc' = "exited"
    /\ exitStatus' = "0"
    /\ UNCHANGED <<env, locals, temps, model, solver, io, exc>>

----------------------------------------------------------------------------
\* The failure path.

\* Statements of the try block that call into Concert or CPLEX before any
\* output: each call may raise an IloException instead of returning.
ThrowSites == {"L16", "L27", "L28", "L31", "L32", "L37", "L39", "L40"}

ThrowInCall ==
    /\ pc \in ThrowSites
    /\ Raise(pc)
    /\ UNCHANGED <<env, locals, temps, model, solver, io, exitStatus>>

\* line 49: cerr << "exception: "   cerr is tied to cout, so what cout holds
\* is flushed before the first insertion.
LogPrefix ==
    /\ pc = "L49"
    /\ Len(err) = 0
    /\ flushed' = Len(out)
    /\ err' = Append(err, "exception: ")
    /\ UNCHANGED <<pc, env, locals, temps, model, solver, tmp, out, exc, exitStatus>>

\* line 49: ... << e
LogExc ==
    /\ pc = "L49"
    /\ Len(err) = 1
    /\ err' = Append(err, excSite)
    /\ UNCHANGED <<pc, env, locals, temps, model, solver, tmp, out, flushed, exc,
                   exitStatus>>

\* line 49: ... << endl;
LogEndl ==
    /\ pc = "L49"
    /\ Len(err) = 2
    /\ err' = Append(err, "endl")
    /\ pc' = "L50"
    /\ UNCHANGED <<env, locals, temps, model, solver, tmp, out, flushed, exc,
                   exitStatus>>

\* Mutant: the handler does not rethrow, control falls through to line 52.
Rethrow_Swallow ==
    /\ pc = "L50"
    /\ pc' = "L52"
    /\ UNCHANGED <<env, locals, temps, model, solver, io, exc, exitStatus>>

\* Mutant: the handler runs the try block again.
Rethrow_Retry ==
    /\ pc = "L50"
    /\ pc' = "L16"
    /\ err' = <<>>
    /\ UNCHANGED <<env, locals, temps, model, solver, tmp, out, flushed, exc,
                   exitStatus>>

\* line 50: throw;  nothing encloses main's handler, so the rethrown
\* exception ends the process through std::terminate.
Rethrow ==
    /\ pc = "L50"
    /\ pc' = "aborted"
    /\ exitStatus' = "abort"
    /\ UNCHANGED <<env, locals, temps, model, solver, io, exc>>

----------------------------------------------------------------------------

Next ==
    \/ EnvCtor
    \/ EnvCtorThrows
    \/ ModelCtor
    \/ DeclKids
    \/ DeclCost40
    \/ DeclCost30
    \/ DeclVar40
    \/ DeclVar30
    \/ MulLeft
    \/ MulRight
    \/ BuildCost
    \/ MakeObjective
    \/ AddObjective
    \/ SumLhs
    \/ MakeConstraint
    \/ AddConstraint
    \/ CplexCtor
    \/ SolveOptimal
    \/ SolveFails
    \/ PutPrefix
    \/ GetValue
    \/ GetValueThrows
    \/ PutValue
    \/ PutSuffix
    \/ PutEndl
    \/ EnvEnd
    \/ Return0
    \/ ThrowInCall
    \/ LogPrefix
    \/ LogExc
    \/ LogEndl
    \/ Rethrow

Spec == Init /\ [][Next]_vars

SpecKids == InitKids /\ [][Next]_vars

Terminated == pc \in {"exited", "aborted"}

----------------------------------------------------------------------------
\* Properties.

Pair(a, b) == [v \in VarNames |-> IF v = "nbBus40" THEN a ELSE b]

\* The capacity constraint and the fleet cost of the fixed instance.
Carries(a, b, kids) == 40 * a + 30 * b >= kids
FleetCost(a, b) == 500 * a + 400 * b

\* What standard output holds after a complete run with solution s.
ExpectedOut(s) ==
    << Str("Use "), FormatG(s["nbBus40"]), Str(" buses of type 40"), Endl,
       Str("Use "), FormatG(s["nbBus30"]), Str(" buses of type 30"), Endl,
       Str("Total cost: "), FormatG(Eval(cost, s)), Endl >>

IsPrefix(p, q) == Len(p) <= Len(q) /\ p = SubSeq(q, 1, Len(p))

\* C1: for nbKids = 300, when the run succeeds the reported pair (a, b) is a
\* pair of non-negative integers that carries 300 kids and costs no more than
\* any pair of non-negative integers that carries 300 kids.
C1_ReportedOptimal ==
    exitStatus = "0" =>
        LET a == Parse(out[2])
            b == Parse(out[6])
        IN  /\ a \in Nat /\ b \in Nat
            /\ Carries(a, b, 300)
            /\ \A x, y \in 0..MaxBus :
                  Carries(x, y, 300) => FleetCost(a, b) <= FleetCost(x, y)

C1_Witness ==
    exitStatus = "0" /\ kidsInput = 300 /\ Parse(out[2]) = 6 /\ Parse(out[6]) = 2

\* C2: with nbKids = 0 the solution is nbBus40 = 0, nbBus30 = 0 with total
\* cost 0, it is what a successful run prints, and no other feasible pair has
\* cost 0.
C2_ZeroKids ==
    (kidsInput = 0 /\ solved) =>
        /\ sol = Pair(0, 0)
        /\ Eval(cost, sol) = 0
        /\ \A s \in Feasible(extracted) :
              Eval(extracted.objs[1].expr, s) = 0 => s = Pair(0, 0)
        /\ exitStatus = "0" =>
              /\ Parse(out[2]) = 0 /\ Parse(out[6]) = 0 /\ Parse(out[10]) = 0

C2_Witness ==
    kidsInput = 0 /\ exitStatus = "0" /\ solved /\ Len(out) = 11

\* C3 as stated: (0, 10) or (7, 1) is an optimum of the model main hands to
\* the solver.
C3_Original ==
    extracted.built =>
        \/ Pair(0, 10) \in Optimal(extracted)
        \/ Pair(7, 1) \in Optimal(extracted)

\* C3 amended: the only optimum of the model main hands to the solver is
\* a = 6, b = 2 with total cost 3800; (0, 10) and (7, 1) are feasible and
\* cost 4000 and 3900.
C3_Amended ==
    extracted.built =>
        /\ Optimal(extracted) = {Pair(6, 2)}
        /\ Eval(extracted.objs[1].expr, Pair(6, 2)) = 3800
        /\ Pair(0, 10) \in Feasible(extracted)
        /\ Eval(extracted.objs[1].expr, Pair(0, 10)) = 4000
        /\ Pair(7, 1) \in Feasible(extracted)
        /\ Eval(extracted.objs[1].expr, Pair(7, 1)) = 3900
        /\ solved => sol = Pair(6, 2)

C3_Witness ==
    solved /\ sol = Pair(6, 2) /\ Eval(cost, sol) = 3800 /\ pc = "L42"

\* C4: the environment is acquired before the model is constructed, and an
\* acquired environment has been released by env.end() whenever the process
\* has terminated, on the success path and on the exception path.
C4_EnvReleased ==
    /\ model.built => env # "none"
    /\ (Terminated /\ env # "none") => env = "ended"

\* C5: the process exits with status 0 exactly when the solve succeeded and
\* the three lines were written; after a failed solve or an exception it ends
\* with a non-zero status and line 52 is never reached.
C5_ExitStatus ==
    /\ exitStatus = "0" <=>
          (Terminated /\ solved /\ thrown = 0 /\ flushed = 11)
    /\ pc \in {"L52", "exited"} => (solved /\ thrown = 0)
    /\ (Terminated /\ (thrown > 0 \/ ~solved)) => exitStatus = "abort"

C5_Witness ==
    Terminated /\ solveCalls = 1 /\ ~solved /\ exitStatus = "abort"

\* C6: when the process has terminated after a failure, nothing has reached
\* standard output, not even part of a line.
C6_NoPartialOutput ==
    (Terminated /\ exitStatus = "abort") => (flushed = 0 /\ out = <<>>)

C8_CaughtOnceNoRetry ==
    /\ caught <= 1
    /\ thrown <= 1
    /\ solveCalls <= 1
    /\ (thrown = 1 /\ excSite # "L14") <=> caught = 1
    /\ err # <<>> => caught = 1
    /\ IsPrefix(err, <<"exception: ", excSite, "endl">>)
    /\ (Terminated /\ caught = 1) =>
          /\ err = <<"exception: ", excSite, "endl">>
          /\ exitStatus = "abort"

C8_Witness ==
    Terminated /\ caught = 1 /\ excSite = "L39" /\ Len(err) = 3

\* C9: once IloCplex has been constructed from the model, it holds exactly
\* one objective and one constraint, which are what the solver extracted, and
\* no later step changes the model, the variables or what was extracted.
C9_ModelReadOnly ==
    [][ /\ extracted.built =>
            /\ model' = model
            /\ dvars' = dvars
            /\ extracted' = extracted
        /\ extracted'.built =>
            /\ Len(model'.objs) = 1
            /\ Len(model'.cts) = 1
            /\ extracted'.objs = model'.objs
            /\ extracted'.cts = model'.cts
            /\ model'.objs[1].sense = "min" ]_vars

C9_Witness ==
    pc = "L46" /\ solveCalls = 1 /\ Len(model.objs) = 1 /\ Len(model.cts) = 1

\* C10: once the total cost has been printed, it equals 500 times the printed
\* nbBus40 plus 400 times the printed nbBus30.
C10_TotalMatches ==
    Len(out) >= 10 =>
        Parse(out[10]) = FleetCost(Parse(out[2]), Parse(out[6]))

C10_Witness ==
    pc = "L44" /\ Len(out) = 10 /\ Parse(out[10]) = 3800

====
